---------------------------- MODULE Spec2Model ----------------------------
(***************************************************************************)
(* A model of src/linear_alpha.py: the linear (systolic) array that        *)
(* computes the alpha profile of a spectral correlation density.           *)
(*                                                                         *)
(* Representation                                                          *)
(*  - A complex sample is a pair <<re, im>> of integers (a Gaussian        *)
(*    integer).  The driver's samples index/128 + (index+1)/128 j are      *)
(*    kept as their numerators <<index, index+1>>.                         *)
(*  - cell_size ranges over CellSizes = {1, 2, 4}: for these lengths every *)
(*    twiddle factor exp(-2 pi i k / n) is one of 1, -i, -1, i, so rFFT is *)
(*    computed exactly over the Gaussian integers.                         *)
(*  - np.abs is kept as the SQUARED magnitude re^2 + im^2.  Squaring is    *)
(*    strictly increasing on the non-negative reals, so every comparison   *)
(*    of the merge (alpha[i] < alpha_bottom[i], ...) has the same outcome  *)
(*    and an entry is zero, or non-negative, exactly when the magnitude    *)
(*    is.  Alpha vectors hold these squared magnitudes.                    *)
(*  - Python sequences are 0-based; the sequences here are 1-based, so     *)
(*    Python's x[i] is x[i + 1].  Indices stored in the state              *)
(*    (cell_index, signal_index, idx) keep Python's 0-based values.        *)
(*  - A queue.Queue is the sequence of its items, head first.  get() on an *)
(*    empty Queue and put() on a full bounded Queue never return in this   *)
(*    single-threaded program: the outcome is the status "blocked".        *)
(***************************************************************************)
EXTENDS Integers, Sequences, FiniteSets, TLC

VARIABLES
    array_size,        \* LinearArray.array_size
    cell_size,         \* LinearArray.cell_size
    total_iterations,  \* the argument of LinearArray.run
    input,             \* LinearArray.input: input[signal][cell], a Queue each
    cells,             \* LinearArray.cells: the list of LinearArrayCell
    iterations,        \* LinearArray.iterations
    num_cells,         \* LinearArray.num_cells
    result,            \* LinearArray.result
    cycle,             \* the module-level global cycle
    pc,                \* position of the caller: the stage of run, or its end
    idx,               \* the loop index of the stage in progress
    exc,               \* the exception that ended the call, "" if none
    run_no,            \* number of the run in this process (1 or 2)
    cycle_end,         \* history: the value of cycle at the end of each run
    input0,            \* history: the input matrix as the driver supplied it
    popped,            \* history: per input queue, the samples popped from it
    last,              \* history: per stage and cell, the round it last ran in
    last_call,         \* history: the cell operation called last, <<name, cell>>
    calls              \* number of cell operations a direct caller has made

vars == <<array_size, cell_size, total_iterations, input, cells, iterations,
          num_cells, result, cycle, pc, idx, exc, run_no, cycle_end, input0,
          popped, last, last_call, calls>>

(***************************************************************************)
(* Bounds of the model.                                                    *)
(***************************************************************************)
MaxArraySize == 4
MaxSignals == 2
MaxIterations == 8
MaxCalls == 5
CellSizes == {1, 2, 4}

(***************************************************************************)
(* Program constants.                                                      *)
(***************************************************************************)
HalfWindow == 8
AbsCycles == 16
PrevAlphaLen == 8

Min(a, b) == IF a < b THEN a ELSE b
Max(a, b) == IF a < b THEN b ELSE a

(***************************************************************************)
(* Complex arithmetic on pairs <<re, im>>.                                 *)
(***************************************************************************)
Zero == <<0, 0>>
CAdd(a, b) == <<a[1] + b[1], a[2] + b[2]>>
CMul(a, b) == <<a[1] * b[1] - a[2] * b[2], a[2] * b[1] + a[1] * b[2]>>
\* single_in.real - single_in.imag * 1j
Conj(a) == <<a[1], 0 - a[2]>>
\* np.abs, kept squared
Abs2(a) == a[1] * a[1] + a[2] * a[2]

\* Python's x[start:stop] on a sequence of length Len(x).
PyBound(n, b) == IF b < 0 THEN Max(b + n, 0) ELSE Min(b, n)
PySlice(x, start, stop) ==
    SubSeq(x, PyBound(Len(x), start) + 1, PyBound(Len(x), stop))

(***************************************************************************)
(* complex_mult(x, y): elementwise product, one cycle per element.         *)
(***************************************************************************)
complex_mult(x, y) == [i \in 1..Len(x) |-> CMul(x[i], y[i])]

(***************************************************************************)
(* getTwiddle(NFFT)[k] = exp(-2 pi i k / NFFT), for NFFT dividing 4: a     *)
(* whole number of quarter turns clockwise.                                *)
(***************************************************************************)
getTwiddle(NFFT, k) ==
    LET q == ((4 \div NFFT) * k) % 4
    IN  CASE q = 0 -> <<1, 0>>
          [] q = 1 -> <<0, -1>>
          [] q = 2 -> <<-1, 0>>
          [] q = 3 -> <<0, 1>>

(***************************************************************************)
(* rFFT(x): the recursive transform of the pipeline.                       *)
(***************************************************************************)
RECURSIVE rFFT(_)
rFFT(x) ==
    LET n == Len(x)
        m == n \div 2
    IN  IF n <= 1 THEN x
        ELSE LET X == rFFT([k \in 1..m |-> x[2 * (k - 1) + 1]])
                 Y == rFFT([k \in 1..m |-> x[2 * (k - 1) + 2]])
             IN  [k \in 1..n |->
                    CAdd(X[((k - 1) % m) + 1],
                         CMul(getTwiddle(n, k - 1), Y[((k - 1) % m) + 1]))]

\* The cycles rFFT adds: one per combined output element, at every level.
RECURSIVE rFFTCycles(_)
rFFTCycles(n) == IF n <= 1 THEN 0 ELSE 2 * rFFTCycles(n \div 2) + n

\* scipy.fftpack.fftshift: the zero-frequency entry moves to index n // 2.
fftshift(x) ==
    LET n == Len(x)
    IN  [i \in 1..n |-> x[((i - 1 - (n \div 2) + n) % n) + 1]]

(***************************************************************************)
(* fft_abs of LinearArrayCell.compute: correlate, transform, centre, crop  *)
(* to the window [n//2 - 8 : n//2 + 8] with Python's slice rules, and take *)
(* the magnitude of each bin.                                              *)
(***************************************************************************)
FftAbs(list_1, list_2) ==
    LET fft_res == rFFT(complex_mult(list_1, list_2))
        n == Len(fft_res)
        fft_shift == PySlice(fftshift(fft_res), (n \div 2) - HalfWindow,
                             (n \div 2) + HalfWindow)
    IN  [i \in 1..Len(fft_shift) |-> Abs2(fft_shift[i])]

\* fft_abs[len(fft_abs) // 2 : len(fft_abs)] and fft_abs[0 : len(fft_abs) // 2]
TopHalf(fft_abs) == SubSeq(fft_abs, (Len(fft_abs) \div 2) + 1, Len(fft_abs))
BottomHalf(fft_abs) == SubSeq(fft_abs, 1, Len(fft_abs) \div 2)

(***************************************************************************)
(* LinearArrayCell.__init__: the fields of a fresh cell.  cell_input is    *)
(* <<"None">>, <<"Queue", signal, cell>> (a reference to                   *)
(* array.input[signal][cell]) or <<"Cell", j>> (a reference to the cell    *)
(* created as array.cells[j]).  single_in and single_out only carry one    *)
(* sample from a get to the next put; cell_partial_result and cell_output  *)
(* are never used: none of the four is kept.                               *)
(***************************************************************************)
NewCell(size) ==
    [cell_size |-> size,
     cell_index |-> 0,
     cell_input |-> <<"None">>,
     data_to_compute_1 |-> <<>>,
     data_to_compute_2 |-> <<>>,
     alpha |-> <<>>,
     alpha_top |-> <<>>,
     alpha_bottom |-> <<>>,
     cell_shift |-> <<>>,
     signal_index |-> 0]

(***************************************************************************)
(* The cell operations act on a record m of the objects they can touch:    *)
(* m.cells, m.input, m.cycle, the history m.popped, and the outcome        *)
(* m.status ("ok", "raised" with the exception in m.exc, or "blocked").    *)
(* A loop of the code is a recursion on the number of passes left; it      *)
(* stops at the pass that raises or blocks, keeping what was done so far.  *)
(***************************************************************************)
Machine(cs, inp, cyc, pop) ==
    [cells |-> cs, input |-> inp, cycle |-> cyc, popped |-> pop,
     status |-> "ok", exc |-> ""]

Raise(m, e) == [m EXCEPT !.status = "raised", !.exc = e]
Block(m) == [m EXCEPT !.status = "blocked"]

\* Queue.full() of a Queue(maxsize): a maxsize of 0 or less never fills.
Full(q, maxsize) == maxsize > 0 /\ Len(q) >= maxsize

(***************************************************************************)
(* LinearArrayCell.clear_shift, on the cell created as cells[i].           *)
(***************************************************************************)
RECURSIVE ClearShiftLoop(_, _, _)
ClearShiftLoop(m, i, k) ==
    IF k <= 0 \/ m.status # "ok" THEN m
    ELSE IF m.cells[i + 1].cell_shift = <<>> THEN Block(m)
    ELSE LET m1 == [m EXCEPT !.cells[i + 1].cell_shift = Tail(@)]
         IN  IF m1.cells[i + 1].data_to_compute_2 = <<>> THEN Block(m1)
             ELSE ClearShiftLoop(
                      [m1 EXCEPT !.cells[i + 1].data_to_compute_2 = Tail(@)],
                      i, k - 1)

\* Mutant of clear_shift: only the shift register is cleared.
clear_shiftKeepsConj(m, i) ==
    [m EXCEPT !.cells[i + 1].cell_shift =
                 SubSeq(@, m.cells[i + 1].cell_size + 1, Len(@))]

\* Mutant of clear_shift: only the conjugate register is cleared.
clear_shiftKeepsShift(m, i) ==
    [m EXCEPT !.cells[i + 1].data_to_compute_2 =
                 SubSeq(@, m.cells[i + 1].cell_size + 1, Len(@))]

clear_shift(m, i) == ClearShiftLoop(m, i, m.cells[i + 1].cell_size)

(***************************************************************************)
(* LinearArrayCell.connect(cell_index, array, array_size, iterations), on  *)
(* the cell array.cells[cell_index].  A Python index of -1 is the last     *)
(* element: cell 0 gets the last cell of the list as its predecessor.      *)
(***************************************************************************)
\* Mutant of PyIndex: a negative index does not wrap around.
PyIndexNoWrap(k, n) == k

PyIndex(k, n) == IF k < 0 THEN k + n ELSE k
InRange(k, n) == 0 <= PyIndex(k, n) /\ PyIndex(k, n) < n

connect(m, cell_index, asize, iters) ==
    LET i == cell_index
        m0 == [m EXCEPT !.cells[i + 1].cell_index = cell_index]
    IN  IF iters % asize = 0
        THEN LET m1 == IF m0.cells[i + 1].signal_index > 0
                       THEN clear_shift(m0, i) ELSE m0
                 s == m1.cells[i + 1].signal_index
             IN  IF m1.status # "ok" THEN m1
                 ELSE IF ~InRange(s, Len(m1.input)) THEN Raise(m1, "IndexError")
                 ELSE IF ~InRange(cell_index, Len(m1.input[s + 1]))
                      THEN Raise(m1, "IndexError")
                 ELSE [m1 EXCEPT
                         !.cells[i + 1].cell_input = <<"Queue", s, cell_index>>,
                         !.cells[i + 1].signal_index = s + 1]
        ELSE IF ~InRange(cell_index - 1, Len(m0.cells))
             THEN Raise(m0, "IndexError")
        ELSE [m0 EXCEPT !.cells[i + 1].cell_input =
                           <<"Cell", PyIndex(cell_index - 1, Len(m0.cells))>>]

(***************************************************************************)
(* LinearArrayCell.cell_read, on the cell created as cells[i].             *)
(***************************************************************************)
\* Mutant of ReadQueueSlot: the slot's sample is read without being taken
\* off the queue (q.queue[0] for q.get()).
ReadQueueSlotPeek(m, i) ==
    LET c == m.cells[i + 1]
        s == c.cell_input[2] + 1
        q == c.cell_input[3] + 1
        empty == m.input[s][q] = <<>>
        single_in == IF empty THEN Zero ELSE Head(m.input[s][q])
        m1 == IF empty THEN m
              ELSE [m EXCEPT !.popped[s][q] = Append(@, single_in)]
    IN  IF Full(c.data_to_compute_1, c.cell_size) THEN Block(m1)
        ELSE LET m2 == [m1 EXCEPT !.cells[i + 1].data_to_compute_1 =
                                     Append(@, single_in)]
             IN  IF Full(c.data_to_compute_2, c.cell_size) THEN Block(m2)
                 ELSE [m2 EXCEPT !.cells[i + 1].data_to_compute_2 =
                                    Append(@, Conj(single_in)),
                                 !.cycle = @ + 1]

\* Mutant of ReadQueueSlot: an exhausted queue fills nothing in (the slot is
\* skipped instead of zero-filled).
ReadQueueSlotNoFill(m, i) ==
    LET c == m.cells[i + 1]
        s == c.cell_input[2] + 1
        q == c.cell_input[3] + 1
        single_in == Head(m.input[s][q])
    IN  IF m.input[s][q] = <<>> THEN [m EXCEPT !.cycle = @ + 1]
        ELSE IF Full(c.data_to_compute_1, c.cell_size) \/
                Full(c.data_to_compute_2, c.cell_size)
        THEN Block(m)
        ELSE [m EXCEPT !.input[s][q] = Tail(@),
                       !.popped[s][q] = Append(@, single_in),
                       !.cells[i + 1].data_to_compute_1 = Append(@, single_in),
                       !.cells[i + 1].data_to_compute_2 =
                           Append(@, Conj(single_in)),
                       !.cycle = @ + 1]

\* One pass of the loop of an external read: the slot's sample, then the
\* two puts.
ReadQueueSlot(m, i) ==
    LET c == m.cells[i + 1]
        s == c.cell_input[2] + 1
        q == c.cell_input[3] + 1
        empty == m.input[s][q] = <<>>
        single_in == IF empty THEN Zero ELSE Head(m.input[s][q])
        m1 == IF empty THEN m
              ELSE [m EXCEPT !.input[s][q] = Tail(@),
                             !.popped[s][q] = Append(@, single_in)]
    IN  IF Full(c.data_to_compute_1, c.cell_size) THEN Block(m1)
        ELSE LET m2 == [m1 EXCEPT !.cells[i + 1].data_to_compute_1 =
                                     Append(@, single_in)]
             IN  IF Full(c.data_to_compute_2, c.cell_size) THEN Block(m2)
                 ELSE [m2 EXCEPT !.cells[i + 1].data_to_compute_2 =
                                    Append(@, Conj(single_in)),
                                 !.cycle = @ + 1]

RECURSIVE ReadQueueLoop(_, _, _)
ReadQueueLoop(m, i, k) ==
    IF k <= 0 \/ m.status # "ok" THEN m
    ELSE ReadQueueLoop(ReadQueueSlot(m, i), i, k - 1)

RECURSIVE ReadShiftLoop(_, _, _)
ReadShiftLoop(m, i, k) ==
    IF k <= 0 \/ m.status # "ok" THEN m
    ELSE LET j == m.cells[i + 1].cell_input[2]
         IN  IF m.cells[j + 1].cell_shift = <<>> THEN Block(m)
             ELSE LET single_in == Head(m.cells[j + 1].cell_shift)
                      m1 == [m EXCEPT !.cells[j + 1].cell_shift = Tail(@)]
                  IN  IF Full(m1.cells[i + 1].data_to_compute_1,
                              m1.cells[i + 1].cell_size)
                      THEN Block(m1)
                      ELSE ReadShiftLoop(
                               [m1 EXCEPT !.cells[i + 1].data_to_compute_1 =
                                             Append(@, single_in),
                                          !.cycle = @ + 1],
                               i, k - 1)

cell_read(m, i) ==
    LET c == m.cells[i + 1]
    IN  IF c.cell_input[1] = "Queue" THEN ReadQueueLoop(m, i, c.cell_size)
        ELSE IF c.cell_size <= 0 THEN m
        ELSE IF c.cell_input[1] = "None" THEN Raise(m, "AttributeError")
        ELSE ReadShiftLoop(m, i, c.cell_size)

(***************************************************************************)
(* LinearArrayCell.shift, on the cell created as cells[i].                 *)
(***************************************************************************)
RECURSIVE ShiftLoop(_, _, _)
ShiftLoop(m, i, k) ==
    IF k <= 0 \/ m.status # "ok" THEN m
    ELSE IF m.cells[i + 1].data_to_compute_1 = <<>> THEN Block(m)
    ELSE LET single_out == Head(m.cells[i + 1].data_to_compute_1)
         IN  ShiftLoop([m EXCEPT !.cells[i + 1].data_to_compute_1 = Tail(@),
                                 !.cells[i + 1].cell_shift =
                                     Append(@, single_out),
                                 !.cycle = @ + 1],
                       i, k - 1)

\* Mutant of shift: the conjugate register is drained as well.
shiftBoth(m, i) ==
    [ShiftLoop(m, i, m.cells[i + 1].cell_size)
        EXCEPT !.cells[i + 1].data_to_compute_2 = <<>>]

\* Mutant of shift: one sample too few is moved (range(cell_size - 1)).
shiftShort(m, i) == ShiftLoop(m, i, m.cells[i + 1].cell_size - 1)

\* Mutant of shift: the samples enter the shift register at its head, so
\* the block comes out in reverse order.
shiftReversed(m, i) ==
    LET m1 == ShiftLoop(m, i, m.cells[i + 1].cell_size)
        q == m1.cells[i + 1].cell_shift
    IN  [m1 EXCEPT !.cells[i + 1].cell_shift =
                      [k \in 1..Len(q) |-> q[Len(q) + 1 - k]]]

shift(m, i) == ShiftLoop(m, i, m.cells[i + 1].cell_size)

(***************************************************************************)
(* LinearArrayCell.compute(last_cell, prev_alpha, iterations), on the cell *)
(* created as cells[i].  The two merge loops follow the code bin by bin.   *)
(***************************************************************************)
\* Mutant of MergeBin: the second comparison is lost and prev_alpha[i] is
\* always stored.
MergeBinOverwrite(alpha, alpha_bottom, prev_alpha, i) ==
    [alpha EXCEPT ![i + 1] = prev_alpha[i + 1]]

\* One pass of the merge loop of a cell that is not the last: bin i.
MergeBin(alpha, alpha_bottom, prev_alpha, i) ==
    LET a1 == IF alpha[i + 1] < alpha_bottom[i + 1]
              THEN [alpha EXCEPT ![i + 1] = alpha_bottom[i + 1]]
              ELSE alpha
    IN  IF a1[i + 1] < prev_alpha[i + 1]
        THEN [a1 EXCEPT ![i + 1] = prev_alpha[i + 1]]
        ELSE a1

RECURSIVE MergeLoop(_, _, _, _, _)
MergeLoop(alpha, alpha_bottom, prev_alpha, i, h) ==
    IF i >= h THEN alpha
    ELSE MergeLoop(MergeBin(alpha, alpha_bottom, prev_alpha, i),
                   alpha_bottom, prev_alpha, i + 1, h)

\* Mutant of LastBin: the comparison is lost and prev_alpha[i] is always
\* stored.
LastBinOverwrite(alpha_top, prev_alpha, i) ==
    [alpha_top EXCEPT ![i + 1] = prev_alpha[i + 1]]

\* One pass of the merge loop of the last cell: bin i.
LastBin(alpha_top, prev_alpha, i) ==
    IF alpha_top[i + 1] < prev_alpha[i + 1]
    THEN [alpha_top EXCEPT ![i + 1] = prev_alpha[i + 1]]
    ELSE alpha_top

RECURSIVE LastLoop(_, _, _, _)
LastLoop(alpha_top, prev_alpha, i, h) ==
    IF i >= h THEN alpha_top
    ELSE LastLoop(LastBin(alpha_top, prev_alpha, i), prev_alpha, i + 1, h)

\* iterations == 0: only alpha_top is set.
ComputeFirst(m, i, fft_abs) ==
    [m EXCEPT !.cells[i + 1].alpha_top = TopHalf(fft_abs)]

\* Mutant of ComputeMerge: alpha_top is not updated to the current round.
ComputeMergeKeepsTop(m, i, fft_abs, prev_alpha) ==
    LET c == m.cells[i + 1]
        h == Len(fft_abs) \div 2
    IN  [m EXCEPT
           !.cells[i + 1].alpha =
               MergeLoop(c.alpha_top, BottomHalf(fft_abs), prev_alpha, 0, h),
           !.cells[i + 1].alpha_bottom = BottomHalf(fft_abs),
           !.cycle = @ + 2 * h]

\* iterations > 0, not last_cell.  alpha[i] or prev_alpha[i] past the end of
\* its vector raises IndexError.
ComputeMerge(m, i, fft_abs, prev_alpha) ==
    LET c == m.cells[i + 1]
        h == Len(fft_abs) \div 2
    IN  IF h > Len(c.alpha_top) \/ h > Len(prev_alpha)
        THEN Raise(m, "IndexError")
        ELSE [m EXCEPT
                !.cells[i + 1].alpha =
                    MergeLoop(c.alpha_top, BottomHalf(fft_abs), prev_alpha, 0, h),
                !.cells[i + 1].alpha_bottom = BottomHalf(fft_abs),
                !.cells[i + 1].alpha_top = TopHalf(fft_abs),
                !.cycle = @ + 2 * h]

\* iterations > 0, last_cell.
ComputeLast(m, i, fft_abs, prev_alpha) ==
    LET c == m.cells[i + 1]
        h == Len(fft_abs) \div 2
    IN  IF h > Len(c.alpha_top) \/ h > Len(prev_alpha)
        THEN Raise(m, "IndexError")
        ELSE LET top == LastLoop(c.alpha_top, prev_alpha, 0, h)
             IN  [m EXCEPT !.cells[i + 1].alpha_top = top,
                           !.cells[i + 1].alpha = top,
                           !.cycle = @ + h]

compute(m, i, last_cell, prev_alpha, iters) ==
    LET c == m.cells[i + 1]
        list_1 == c.data_to_compute_1
        list_2 == c.data_to_compute_2
    IN  IF Len(list_2) < Len(list_1)
        THEN Raise([m EXCEPT !.cycle = @ + Len(list_2)], "IndexError")
        ELSE
        LET fft_abs == FftAbs(list_1, list_2)
            m1 == [m EXCEPT !.cycle = @ + Len(list_1) + rFFTCycles(Len(list_1))
                                        + AbsCycles]
        IN  IF iters = 0 THEN ComputeFirst(m1, i, fft_abs)
            ELSE IF ~last_cell THEN ComputeMerge(m1, i, fft_abs, prev_alpha)
            ELSE ComputeLast(m1, i, fft_abs, prev_alpha)

(***************************************************************************)
(* The driver (main): the input matrix, one Queue per signal and           *)
(* processing element.  main puts `registers` samples in every queue; here *)
(* the number put, fill, is an input, so that queues shorter and longer    *)
(* than a block occur.  Pattern 1 is main's ramp                           *)
(* index/128 + (index+1)/128 j (numerators kept); pattern 2 is a second    *)
(* signal whose magnitude falls with the index.                            *)
(***************************************************************************)
Patterns == {1, 2}
Sample(pat, index) ==
    IF pat = 1 THEN <<index, index + 1>> ELSE <<7 - index, index % 2>>

DriverQueue(pat, fill, signal, pe) ==
    [k \in 1..fill |->
        Sample(pat, IF signal = 0 THEN pe * fill + k - 1
                    ELSE (pe + 1) * fill - k)]

DriverInput(pat, fill, signals, pes) ==
    [s \in 1..signals |-> [q \in 1..pes |-> DriverQueue(pat, fill, s - 1, q - 1)]]

Fills(size) == {f \in {0, size - 1, size, size + 1} : f >= 0}

(***************************************************************************)
(* LinearArray.__init__                                                    *)
(***************************************************************************)
NewCells(asize, size) == [i \in 1..asize |-> NewCell(size)]

NoPops(inp) == [s \in 1..Len(inp) |-> [q \in 1..Len(inp[s]) |-> <<>>]]
NeverRan(asize) ==
    [st \in {"connect", "read", "compute", "shift"} |->
        [i \in 1..asize |-> -1]]

Construct(asize, size, fifo_input) ==
    /\ array_size' = asize
    /\ cell_size' = size
    /\ input' = fifo_input
    /\ iterations' = 0
    /\ cells' = NewCells(asize, size)
    /\ result' = <<>>
    /\ num_cells' = asize
    /\ popped' = NoPops(fifo_input)
    /\ last' = NeverRan(asize)

Init ==
    /\ array_size \in 1..MaxArraySize
    /\ cell_size \in CellSizes
    /\ total_iterations \in 0..MaxIterations
    /\ \E pat \in Patterns, fill \in Fills(cell_size), signals \in 1..MaxSignals :
          input = DriverInput(pat, fill, signals, array_size)
    /\ input0 = input
    /\ iterations = 0
    /\ cells = NewCells(array_size, cell_size)
    /\ result = <<>>
    /\ num_cells = Len(cells)
    /\ cycle = 0
    /\ pc = IF total_iterations > 0 THEN "connect" ELSE "return"
    /\ idx = 0
    /\ exc = ""
    /\ run_no = 1
    /\ cycle_end = <<>>
    /\ popped = NoPops(input)
    /\ last = NeverRan(array_size)
    /\ last_call = <<"none", 0>>
    /\ calls = 0

(***************************************************************************)
(* LinearArray.run, one cell operation per step.  Commit(m, ...) stores    *)
(* what a cell operation did; a call that raised or blocked ends the run.  *)
(***************************************************************************)
Here == Machine(cells, input, cycle, popped)

Commit(m) ==
    /\ cells' = m.cells
    /\ input' = m.input
    /\ cycle' = m.cycle
    /\ popped' = m.popped
    /\ exc' = m.exc

Stamp(stage, i) == [last EXCEPT ![stage][i + 1] = iterations]

\* Mutant of Advance: no barrier, the cell just served goes on to the next
\* stage at once.
AdvanceNoBarrier(stage, next_stage) ==
    pc' = next_stage /\ idx' = idx

\* The stage loops of run: `for cell in self.cells` goes on to the next cell
\* and, after the last one, run calls the next stage.
Advance(stage, next_stage) ==
    IF idx + 1 < Len(cells) THEN pc' = stage /\ idx' = idx + 1
    ELSE pc' = next_stage /\ idx' = 0

\* LinearArray.connect: for cell_index, cell in enumerate(self.cells)
ConnectCell ==
    /\ pc = "connect"
    /\ LET m == connect(Here, idx, array_size, iterations)
       IN  /\ Commit(m)
           /\ IF m.status # "ok" THEN pc' = m.status /\ idx' = idx
              ELSE Advance("connect", "read")
    /\ last' = Stamp("connect", idx)
    /\ last_call' = <<"connect", idx>>
    /\ UNCHANGED <<array_size, cell_size, total_iterations, iterations,
                   num_cells, result, run_no, cycle_end, input0, calls>>

\* LinearArray.read: for cell in self.cells
ReadCell ==
    /\ pc = "read"
    /\ LET m == cell_read(Here, idx)
       IN  /\ Commit(m)
           /\ IF m.status # "ok" THEN pc' = m.status /\ idx' = idx
              ELSE Advance("read", "compute")
    /\ last' = Stamp("read", idx)
    /\ last_call' = <<"cell_read", idx>>
    /\ UNCHANGED <<array_size, cell_size, total_iterations, iterations,
                   num_cells, result, run_no, cycle_end, input0, calls>>

\* Mutant of AfterCompute: the count is decremented in round 0 as well.
AfterComputeAlways == num_cells - 1

\* if self.iterations > 0: self.num_cells -= 1
AfterCompute == IF iterations > 0 THEN num_cells - 1 ELSE num_cells

\* LinearArray.compute: for i in range(self.num_cells)
ComputeCell ==
    /\ pc = "compute"
    /\ idx < num_cells
    /\ LET last_cell == (idx = num_cells - 1)
           prev_alpha == IF idx = 0 THEN [b \in 1..PrevAlphaLen |-> 0]
                         ELSE cells[idx].alpha
           m == compute(Here, idx, last_cell, prev_alpha, iterations)
       IN  /\ Commit(m)
           /\ IF m.status # "ok"
              THEN pc' = m.status /\ idx' = idx /\ num_cells' = num_cells
              ELSE IF idx + 1 < num_cells
              THEN pc' = "compute" /\ idx' = idx + 1 /\ num_cells' = num_cells
              ELSE pc' = "shift" /\ idx' = 0 /\ num_cells' = AfterCompute
    /\ last' = Stamp("compute", idx)
    /\ last_call' = <<"compute", idx>>
    /\ UNCHANGED <<array_size, cell_size, total_iterations, iterations,
                   result, run_no, cycle_end, input0, calls>>

\* LinearArray.compute when range(self.num_cells) is empty
ComputeNone ==
    /\ pc = "compute"
    /\ num_cells <= 0
    /\ pc' = "shift"
    /\ idx' = 0
    /\ num_cells' = AfterCompute
    /\ UNCHANGED <<array_size, cell_size, total_iterations, input, cells,
                   iterations, result, cycle, exc, run_no, cycle_end, input0,
                   popped, last, last_call, calls>>

\* LinearArray.shift: for cell in self.cells; then self.iterations += 1
ShiftCell ==
    /\ pc = "shift"
    /\ LET m == shift(Here, idx)
       IN  /\ Commit(m)
           /\ IF m.status # "ok"
              THEN pc' = m.status /\ idx' = idx /\ iterations' = iterations
              ELSE IF idx + 1 < Len(cells)
              THEN pc' = "shift" /\ idx' = idx + 1 /\ iterations' = iterations
              ELSE /\ idx' = 0
                   /\ iterations' = iterations + 1
                   /\ pc' = IF iterations + 1 < total_iterations
                            THEN "connect" ELSE "return"
    /\ last' = Stamp("shift", idx)
    /\ last_call' = <<"shift", idx>>
    /\ UNCHANGED <<array_size, cell_size, total_iterations, num_cells, result,
                   run_no, cycle_end, input0, calls>>

\* Mutant of AppendAlphas: every cell's alpha_top is appended.
RECURSIVE AppendTops(_, _)
AppendTops(res, cs) ==
    IF cs = <<>> THEN res ELSE AppendTops(Append(res, Head(cs).alpha_top), Tail(cs))

\* for cell in self.cells: self.result.append(cell.alpha)
RECURSIVE AppendAlphas(_, _)
AppendAlphas(res, cs) ==
    IF cs = <<>> THEN res ELSE AppendAlphas(Append(res, Head(cs).alpha), Tail(cs))

\* The end of run: result.append(cells[0].alpha_top); cells.pop(0); the
\* loop over the cells left; return.
Return ==
    /\ pc = "return"
    /\ IF cells = <<>>
       THEN /\ pc' = "raised" /\ exc' = "IndexError"
            /\ UNCHANGED <<result, cells, cycle_end>>
       ELSE /\ result' = AppendAlphas(Append(result, cells[1].alpha_top),
                                      Tail(cells))
            /\ cells' = Tail(cells)
            /\ pc' = "done"
            /\ exc' = exc
            /\ cycle_end' = Append(cycle_end, cycle)
    /\ UNCHANGED <<array_size, cell_size, total_iterations, input, iterations,
                   num_cells, cycle, idx, run_no, input0, popped, last,
                   last_call, calls>>

Next ==
    \/ ConnectCell
    \/ ReadCell
    \/ ComputeCell
    \/ ComputeNone
    \/ ShiftCell
    \/ Return

Spec == Init /\ [][Next]_vars

(***************************************************************************)
(* Two runs in one process: the driver builds a second LinearArray of the  *)
(* same configuration on the same inputs and runs it.  Nothing resets the  *)
(* module-level cycle between the two.                                     *)
(***************************************************************************)
Rerun ==
    /\ pc = "done"
    /\ run_no = 1
    /\ Construct(array_size, cell_size, input0)
    /\ run_no' = 2
    /\ pc' = IF total_iterations > 0 THEN "connect" ELSE "return"
    /\ idx' = 0
    /\ exc' = ""
    /\ UNCHANGED <<total_iterations, cycle, cycle_end, input0, last_call, calls>>

NextTwice == Next \/ Rerun

SpecTwice == Init /\ [][NextTwice]_vars

(***************************************************************************)
(* The cell operations called directly, in any order: a caller of          *)
(* LinearArrayCell that is not LinearArray.run (a test of one operation).  *)
(* compute only looks at the registers (list(q.queue)), so the calls that  *)
(* move samples are connect, cell_read and shift.                          *)
(***************************************************************************)
InitCall ==
    /\ array_size \in 1..MaxArraySize
    /\ cell_size \in CellSizes
    /\ total_iterations = 0
    /\ \E fill \in Fills(cell_size) :
          input = DriverInput(1, fill, 1, array_size)
    /\ input0 = input
    /\ iterations = 0
    /\ cells = NewCells(array_size, cell_size)
    /\ result = <<>>
    /\ num_cells = Len(cells)
    /\ cycle = 0
    /\ pc = "call"
    /\ idx = 0
    /\ exc = ""
    /\ run_no = 1
    /\ cycle_end = <<>>
    /\ popped = NoPops(input)
    /\ last = NeverRan(array_size)
    /\ last_call = <<"none", 0>>
    /\ calls = 0

Called(m, name, i) ==
    /\ Commit(m)
    /\ pc' = IF m.status = "ok" THEN "call" ELSE m.status
    /\ last_call' = <<name, i>>
    /\ calls' = calls + 1
    /\ UNCHANGED <<array_size, cell_size, total_iterations, iterations,
                   num_cells, result, idx, run_no, cycle_end, input0, last>>

CallIndices == 0..(Len(cells) - 1)

\* cell.connect(i, array, array_size, iters), the round number iters being
\* the caller's choice
CallConnect ==
    \E i \in CallIndices, iters \in 0..1 :
        /\ pc = "call" /\ calls < MaxCalls
        /\ Called(connect(Here, i, array_size, iters), "connect", i)

\* cell.cell_read()
CallRead ==
    \E i \in CallIndices :
        /\ pc = "call" /\ calls < MaxCalls
        /\ Called(cell_read(Here, i), "cell_read", i)

\* cell.shift()
CallShift ==
    \E i \in CallIndices :
        /\ pc = "call" /\ calls < MaxCalls
        /\ Called(shift(Here, i), "shift", i)

NextCall ==
    \/ CallConnect
    \/ CallRead
    \/ CallShift

SpecCell == InitCall /\ [][NextCall]_vars

(***************************************************************************)
(*                              THE CLAIMS                                 *)
(***************************************************************************)
Cells == 1..array_size
Failed == pc \in {"raised", "blocked"}

\* The block an external read loads from queue q: its first `size` samples,
\* zero-valued samples where the queue has run out.
ExternalBlock(q, size) ==
    [k \in 1..size |-> IF k <= Len(q) THEN q[k] ELSE Zero]
ConjAll(x) == [k \in 1..Len(x) |-> Conj(x[k])]

\* The number of cells LinearArray.compute works on in round r.
ActiveIn(r) == IF r = 0 THEN array_size ELSE Max(array_size - r + 1, 0)

\* Cell i (1-based) took a step of `stage` in the step at hand.
Ran(stage, i) == last'[stage][i] # last[stage][i]

(***************************************************************************)
(* C1 (as amended).  In every round the stages run in the order connect,   *)
(* read, compute, shift; connect, read and shift are applied to all cells  *)
(* and compute to the cells 0..num_cells-1 that are active in the round,   *)
(* before any cell starts the next stage; no cell starts round r+1 before  *)
(* every cell has finished shift of round r.  In terms of the round each   *)
(* stage last ran in: a cell has read in round r only if every cell has    *)
(* connected in round r, and so on along the chain.                        *)
(***************************************************************************)
C1_StageBarrier ==
    \A i \in Cells, j \in Cells :
        /\ last.read[j] <= last.connect[i]
        /\ last.compute[j] <= last.read[i]
        /\ last.shift[j] <= last.read[i]
        /\ (last.shift[j] >= 0 /\ i <= ActiveIn(last.shift[j]))
              => last.compute[i] >= last.shift[j]
        /\ last.connect[j] <= last.shift[i] + 1

\* C1 witness: in round 2 the first cell is shifted after its compute of
\* that round while the last cell was last computed in round 1.
C1_Witness ==
    /\ array_size >= 2
    /\ last.shift[1] = 2
    /\ last.compute[1] = 2
    /\ last.compute[array_size] = 1

\* C1 as stated: compute, too, is applied to ALL cells before any cell
\* starts shift.
C1_Original ==
    \A i \in Cells, j \in Cells :
        /\ last.read[j] <= last.connect[i]
        /\ last.compute[j] <= last.read[i]
        /\ last.shift[j] <= last.compute[i]
        /\ last.connect[j] <= last.shift[i] + 1

(***************************************************************************)
(* C2 (as amended).  When totalIterations is exactly (number of signal     *)
(* groups) x arraySize and no input queue holds more than cell_size        *)
(* samples, after run every external input queue is empty and the samples  *)
(* popped from it are exactly the samples supplied, each once, in order.   *)
(***************************************************************************)
Queues == {sq \in (1..Len(input0)) \X Cells : TRUE}

C2_DrainedOnce ==
    (/\ pc = "done"
     /\ total_iterations = Len(input0) * array_size
     /\ \A sq \in Queues : Len(input0[sq[1]][sq[2]]) <= cell_size)
    => \A sq \in Queues :
          /\ input[sq[1]][sq[2]] = <<>>
          /\ popped[sq[1]][sq[2]] = input0[sq[1]][sq[2]]

\* C2 witness: a finished run over two signal groups of full blocks.
C2_Witness ==
    /\ pc = "done"
    /\ array_size >= 2
    /\ Len(input0) = 2
    /\ total_iterations = 2 * array_size
    /\ \A sq \in Queues : Len(input0[sq[1]][sq[2]]) = cell_size
    /\ \A sq \in Queues : popped[sq[1]][sq[2]] = input0[sq[1]][sq[2]]

\* C2 as stated: whenever totalIterations is a multiple of arraySize.
C2_Original ==
    (pc = "done" /\ total_iterations % array_size = 0)
    => \A sq \in Queues :
          /\ input[sq[1]][sq[2]] = <<>>
          /\ popped[sq[1]][sq[2]] = input0[sq[1]][sq[2]]

(***************************************************************************)
(* C3 (as amended).  Max-hold within a round: for every cell computed in a *)
(* round k >= 1 and every bin b, the alpha[b] the cell holds after compute *)
(* is at least the alpha_top[b] it held before the call (the upper half    *)
(* kept from round k-1), and for the merged bins b < len(fft_abs) // 2 it  *)
(* is at least predecessorAlpha[b] (0 for cell 0, else the alpha of cell   *)
(* i-1 after its compute of the same round).  It need not be at least the  *)
(* alpha[b] the cell held after round k-1.                                 *)
(***************************************************************************)
MergedBins(i) ==
    Len(FftAbs(cells[i].data_to_compute_1, cells[i].data_to_compute_2)) \div 2

C3_MaxHoldInRound ==
    [][\A i \in Cells :
          (Ran("compute", i) /\ iterations >= 1 /\ pc' \notin {"raised", "blocked"})
          => /\ Len(cells'[i].alpha) = Len(cells[i].alpha_top)
             /\ \A b \in 1..Len(cells'[i].alpha) :
                   /\ cells'[i].alpha[b] >= cells[i].alpha_top[b]
                   /\ cells'[i].alpha[b] >= 0
                   /\ (i > 1 /\ b <= MergedBins(i))
                         => cells'[i].alpha[b] >= cells'[i - 1].alpha[b]]_vars

\* C3 witness: a cell other than cell 0 has just been computed in round 2,
\* after its compute of round 1, and holds a merged alpha.
C3_Witness ==
    \E i \in Cells :
        /\ i > 1
        /\ last_call = <<"compute", i - 1>>
        /\ last.compute[i] = 2
        /\ i <= ActiveIn(2)
        /\ ~Failed
        /\ Len(cells[i].alpha) > 0
        /\ cells[i].alpha[1] >= cells[i - 1].alpha[1]
        /\ cells[i].alpha[1] > 0

\* C3 as stated: alpha[b] after compute in round k+1 is at least alpha[b]
\* after compute in round k, for k >= 1.
C3_Original ==
    [][\A i \in Cells :
          (Ran("compute", i) /\ last.compute[i] >= 1 /\ pc' \notin {"raised", "blocked"})
          => \A b \in 1..Len(cells[i].alpha) :
                cells'[i].alpha[b] >= cells[i].alpha[b]]_vars

(***************************************************************************)
(* C4.  run returns exactly arraySize vectors in cell order: result[0] is  *)
(* cell 0's alpha_top and result[i], 1 <= i < arraySize, is cell i's       *)
(* alpha; after the run cell 0 is gone from the cell list and the other    *)
(* cells remain in their order.                                            *)
(***************************************************************************)
C4_ResultInCellOrder ==
    [][(pc' = "done" /\ pc # "done")
       => /\ Len(result') = array_size
          /\ result'[1] = cells[1].alpha_top
          /\ \A i \in 2..array_size : result'[i] = cells[i].alpha
          /\ Len(cells') = array_size - 1
          /\ \A i \in 1..(array_size - 1) : cells'[i] = cells[i + 1]]_vars

\* C4 witness: a finished run of three cells and at least three rounds,
\* whose cells all hold different indices and a merged alpha.
C4_Witness ==
    /\ pc = "done"
    /\ array_size = 3
    /\ total_iterations >= 3
    /\ Len(result) = 3
    /\ Len(cells) = 2
    /\ cells[1].cell_index = 1 /\ cells[2].cell_index = 2
    /\ result[2] = cells[1].alpha /\ result[2] # <<>>

(***************************************************************************)
(* C5 (as amended).  For a run of two or more rounds the first vector      *)
(* returned is the alpha_top cell 0 computed in round                      *)
(* r = min(totalIterations, arraySize) - 1: the upper half of the spectrum *)
(* of the block that cell (-r mod arraySize) loaded, correlated with the   *)
(* conjugate of cell 0's own block.  For arraySize = 2 and 2 iterations    *)
(* that is round 1, not iteration 0.                                       *)
(***************************************************************************)
LastTopRound == Min(total_iterations, array_size) - 1
BlockOf(q) == ExternalBlock(input0[1][q], cell_size)

C5_FirstVectorIsLastTop ==
    (pc = "done" /\ total_iterations >= 2)
    => result[1] =
          TopHalf(FftAbs(BlockOf(((array_size - LastTopRound) % array_size) + 1),
                         ConjAll(BlockOf(1))))

\* C5 witness: the spec's scenario (arraySize=2, cellSize=2, 2 iterations),
\* where the first vector differs from the iteration-0 alpha_top.
C5_Witness ==
    /\ pc = "done"
    /\ array_size = 2 /\ cell_size = 2 /\ total_iterations = 2
    /\ result[1] = TopHalf(FftAbs(BlockOf(2), ConjAll(BlockOf(1))))
    /\ result[1] # TopHalf(FftAbs(BlockOf(1), ConjAll(BlockOf(1))))

\* C5 as stated: the first vector is the alpha_top of iteration 0.
C5_Original ==
    (pc = "done" /\ total_iterations >= 2)
    => result[1] = TopHalf(FftAbs(BlockOf(1), ConjAll(BlockOf(1))))

(***************************************************************************)
(* C6.  Every vector returned by run has exactly 8 entries, each           *)
(* non-negative.  (Violated by the code: see the cell sizes below 16 and   *)
(* the runs of one iteration.)                                             *)
(***************************************************************************)
C6_EightNonNegative ==
    pc = "done"
    => \A k \in 1..Len(result) :
          /\ Len(result[k]) = PrevAlphaLen
          /\ \A b \in 1..Len(result[k]) : result[k][b] >= 0

(***************************************************************************)
(* C7.  No call of connect, cell_read, compute or shift made by run raises *)
(* or blocks, whatever totalIterations and the input matrix are.           *)
(* (Violated by the code: connect indexes a signal group that was not      *)
(* supplied.)                                                              *)
(***************************************************************************)
C7_NeverRaisesNorBlocks == ~Failed

(***************************************************************************)
(* C8.  An externally sourced cell_read on a queue holding fewer than      *)
(* cell_size samples does not fail: the raw register receives the          *)
(* available samples in queue order followed by zero-valued samples, the   *)
(* conjugate register the conjugates of the same, cell_size entries each,  *)
(* and the external queue ends empty.                                      *)
(***************************************************************************)
QueueOf(i) == input[cells[i].cell_input[2] + 1][cells[i].cell_input[3] + 1]

C8_ShortQueueZeroFill ==
    [][\A i \in Cells :
          (/\ Ran("read", i)
           /\ cells[i].cell_input[1] = "Queue"
           /\ Len(QueueOf(i)) < cell_size)
          => /\ pc' \notin {"raised", "blocked"}
             /\ cells'[i].data_to_compute_1 =
                   cells[i].data_to_compute_1 \o ExternalBlock(QueueOf(i), cell_size)
             /\ cells'[i].data_to_compute_2 =
                   cells[i].data_to_compute_2
                       \o ConjAll(ExternalBlock(QueueOf(i), cell_size))
             /\ Len(cells'[i].data_to_compute_1) = cell_size
             /\ Len(cells'[i].data_to_compute_2) = cell_size
             /\ input'[cells[i].cell_input[2] + 1][cells[i].cell_input[3] + 1]
                   = <<>>]_vars

\* C8 witness: a cell has just read a queue that held some, but fewer than
\* cell_size, samples: its raw register ends with a zero-valued sample.
C8_Witness ==
    \E i \in Cells :
        /\ last_call = <<"cell_read", i - 1>>
        /\ last.read[i] = 0
        /\ cell_size = 4
        /\ Len(input0[1][i]) = 3
        /\ input[1][i] = <<>>
        /\ cells[i].data_to_compute_1 = input0[1][i] \o <<Zero>>
        /\ Len(cells[i].data_to_compute_2) = 4

(***************************************************************************)
(* C9.  A predecessor-sourced cell_read that finds fewer than cell_size    *)
(* samples in the predecessor's shift register ends in an error raised to  *)
(* the caller; it does not block.  (Violated by the code: Queue.get()      *)
(* blocks.)  Checked on cell operations called directly (SpecCell).        *)
(***************************************************************************)
C9_UnderflowRaises ==
    [][\A i \in Cells :
          (/\ calls' = calls + 1
           /\ last_call' = <<"cell_read", i - 1>>
           /\ cells[i].cell_input[1] = "Cell"
           /\ Len(cells[cells[i].cell_input[2] + 1].cell_shift) < cell_size)
          => pc' = "raised"]_vars

(***************************************************************************)
(* C10.  Two runs of the same configuration on the same inputs, one after  *)
(* the other in the same process, end with the same value of the cycle     *)
(* counter.  (Violated by the code: the global is never reset.)  Checked   *)
(* under SpecTwice.                                                        *)
(***************************************************************************)
C10_SameFinalCycle ==
    Len(cycle_end) = 2 => cycle_end[2] = cycle_end[1]

\* The block the cell created as cells[q - 1] loads from its external queue in
\* the first round of signal group g (0-based g, 1-based q).
GroupBlock(g, q) == ExternalBlock(input0[g + 1][q], cell_size)

\* The cell list still holds every cell (run has not reached cells.pop(0)).
AllCells == Len(cells) = array_size

(***************************************************************************)
(* C11.  In every reachable state of run the raw register                  *)
(* (data_to_compute_1) and the conjugate register (data_to_compute_2) of   *)
(* every cell each hold at most cell_size samples, and no put is attempted *)
(* on a full register: no cell operation of run blocks.                    *)
(***************************************************************************)
C11_RegistersBounded ==
    /\ pc # "blocked"
    /\ \A i \in 1..Len(cells) :
          /\ Len(cells[i].data_to_compute_1) <= cell_size
          /\ Len(cells[i].data_to_compute_2) <= cell_size

\* C11 witness: in the first round of the second signal group a cell has
\* refilled both registers to exactly cell_size samples.
C11_Witness ==
    \E i \in Cells :
        /\ AllCells /\ ~Failed
        /\ last_call = <<"cell_read", i - 1>>
        /\ last.read[i] = array_size
        /\ Len(cells[i].data_to_compute_1) = cell_size
        /\ Len(cells[i].data_to_compute_2) = cell_size

(***************************************************************************)
(* C12 (as amended).  The conjugate register receives a sample only in a   *)
(* slot of an externally sourced read, the slot in which the raw register  *)
(* receives the sample popped from the external queue or, when the queue   *)
(* is exhausted, the zero-valued sample put in its place; the value pushed *)
(* is the conjugate of that sample.  A predecessor-sourced read, compute   *)
(* and shift leave the conjugate register unchanged.                       *)
(***************************************************************************)
Suffix(x, k) == SubSeq(x, Len(x) - k + 1, Len(x))
Grown(i) == Len(cells'[i].data_to_compute_2) - Len(cells[i].data_to_compute_2)

C12_ConjugateOnlyOnExternalRead ==
    [][\A i \in Cells :
          (AllCells /\ Len(cells') = array_size)
          => /\ Grown(i) > 0
                => /\ Ran("read", i)
                   /\ cells[i].cell_input[1] = "Queue"
                   /\ Suffix(cells'[i].data_to_compute_1, Grown(i)) =
                         ExternalBlock(input[cells[i].cell_input[2] + 1]
                                            [cells[i].cell_input[3] + 1],
                                       Grown(i))
                   /\ Suffix(cells'[i].data_to_compute_2, Grown(i)) =
                         ConjAll(Suffix(cells'[i].data_to_compute_1, Grown(i)))
                   /\ Len(cells'[i].data_to_compute_1) =
                         Len(cells[i].data_to_compute_1) + Grown(i)
             /\ ((Ran("read", i) /\ cells[i].cell_input[1] # "Queue")
                 \/ Ran("compute", i) \/ Ran("shift", i))
                => cells'[i].data_to_compute_2 = cells[i].data_to_compute_2]_vars

\* C12 witness: a cell has just read its block from a predecessor and its
\* conjugate register still holds the conjugate of the block it loaded
\* itself, which is not the conjugate of the raw register.
C12_Witness ==
    \E i \in Cells :
        /\ AllCells /\ ~Failed
        /\ last_call = <<"cell_read", i - 1>>
        /\ cells[i].cell_input[1] = "Cell"
        /\ Len(cells[i].data_to_compute_1) = cell_size
        /\ cells[i].data_to_compute_2 = ConjAll(GroupBlock(0, i))
        /\ cells[i].data_to_compute_2 # ConjAll(cells[i].data_to_compute_1)

\* C12 as stated: every sample the raw register receives in such a slot was
\* popped from the external queue.
C12_Original ==
    [][\A i \in Cells :
          (AllCells /\ Len(cells') = array_size)
          => /\ Grown(i) > 0
                => /\ Ran("read", i)
                   /\ cells[i].cell_input[1] = "Queue"
                   /\ Grown(i) <= Len(input[cells[i].cell_input[2] + 1]
                                           [cells[i].cell_input[3] + 1])
                   /\ Suffix(cells'[i].data_to_compute_1, Grown(i)) =
                         SubSeq(input[cells[i].cell_input[2] + 1]
                                     [cells[i].cell_input[3] + 1], 1, Grown(i))
                   /\ Suffix(cells'[i].data_to_compute_2, Grown(i)) =
                         ConjAll(Suffix(cells'[i].data_to_compute_1, Grown(i)))
             /\ ((Ran("read", i) /\ cells[i].cell_input[1] # "Queue")
                 \/ Ran("compute", i) \/ Ran("shift", i))
                => cells'[i].data_to_compute_2 = cells[i].data_to_compute_2]_vars

(***************************************************************************)
(* C13 (as amended).  After connect, the input source of cell 0 is the     *)
(* external input queue input[signal][0] in the rounds with                *)
(* iterations % arraySize = 0 (every round when arraySize = 1) and the     *)
(* last cell of the array, cells[arraySize - 1], in all other rounds:      *)
(* there cell 0 reads from the shift register of the last cell.            *)
(***************************************************************************)
ConnectFailed(i) == Failed /\ last_call = <<"connect", i - 1>>

C13_CellZeroSource ==
    (AllCells /\ last.connect[1] >= 0)
    => IF last.connect[1] % array_size = 0
       THEN ~ConnectFailed(1)
            => cells[1].cell_input =
                  <<"Queue", last.connect[1] \div array_size, 0>>
       ELSE /\ ~ConnectFailed(1)
            /\ cells[1].cell_input = <<"Cell", array_size - 1>>

\* C13 witness: in round 1 of an array of three or more cells, cell 0 has
\* read the block that the last cell shifted out.
C13_Witness ==
    /\ AllCells /\ ~Failed
    /\ array_size >= 3
    /\ last.read[1] = 1
    /\ cells[1].cell_input = <<"Cell", array_size - 1>>
    /\ cells[1].data_to_compute_1 = GroupBlock(0, array_size)
    /\ cells[1].data_to_compute_1 # GroupBlock(0, 1)

\* C13 as stated: the source of cell 0 is always an external input queue.
C13_Original ==
    (AllCells /\ last.connect[1] >= 0) => cells[1].cell_input[1] = "Queue"

(***************************************************************************)
(* C14.  Under run, whenever a cell performs a predecessor-sourced read,   *)
(* the shift register it reads from holds at least cell_size samples at    *)
(* that moment, and the read completes without blocking and moves exactly  *)
(* that block into the raw register.                                       *)
(***************************************************************************)
C14_PredecessorReadNeverUnderflows ==
    [][\A i \in Cells :
          (AllCells /\ Ran("read", i) /\ cells[i].cell_input[1] = "Cell")
          => LET src == cells[cells[i].cell_input[2] + 1].cell_shift
             IN  /\ Len(src) >= cell_size
                 /\ pc' \notin {"raised", "blocked"}
                 /\ cells'[i].data_to_compute_1 =
                       cells[i].data_to_compute_1 \o SubSeq(src, 1, cell_size)]_vars

\* C14 witness: in the second round of the second signal group a cell has
\* read a full block from its predecessor's shift register.
C14_Witness ==
    \E i \in Cells :
        /\ AllCells /\ ~Failed
        /\ last_call = <<"cell_read", i - 1>>
        /\ cells[i].cell_input[1] = "Cell"
        /\ last.read[i] = array_size + 1
        /\ Len(cells[i].data_to_compute_1) = cell_size

Max3(a, b, c) == IF a >= b /\ a >= c THEN a ELSE IF b >= c THEN b ELSE c

C16_NonLastMerge ==
    [][\A i \in Cells :
          (/\ AllCells /\ Ran("compute", i)
           /\ iterations >= 1
           /\ i < num_cells
           /\ pc' \notin {"raised", "blocked"})
          => LET fft_abs == FftAbs(cells[i].data_to_compute_1,
                                   cells[i].data_to_compute_2)
                 half == Len(fft_abs) \div 2
                 lower == SubSeq(fft_abs, 1, half)
                 upper == SubSeq(fft_abs, half + 1, Len(fft_abs))
                 before == cells[i].alpha_top
                 predecessorAlpha ==
                     IF i = 1 THEN [b \in 1..PrevAlphaLen |-> 0]
                     ELSE cells'[i - 1].alpha
             IN  /\ i > 1 => last.compute[i - 1] = iterations
                 /\ Len(cells'[i].alpha) = Len(before)
                 /\ \A b \in 1..Len(before) :
                       cells'[i].alpha[b] =
                          IF b <= half
                          THEN Max3(before[b], lower[b], predecessorAlpha[b])
                          ELSE before[b]
                 /\ cells'[i].alpha_top = upper]_vars

\* C16 witness: a cell other than cell 0 and other than the last active
\* cell has just run compute in a round >= 1, and in bin 0 the value of
\* its predecessor won over the cell's own lower half.
C16_Witness ==
    \E i \in Cells :
        /\ AllCells /\ ~Failed
        /\ i > 1
        /\ last_call = <<"compute", i - 1>>
        /\ iterations >= 1
        /\ i < num_cells
        /\ Len(cells[i].alpha) >= 1 /\ Len(cells[i].alpha_bottom) >= 1
        /\ cells[i].alpha[1] = cells[i - 1].alpha[1]
        /\ cells[i].alpha[1] > cells[i].alpha_bottom[1]

RoundsCounted == IF pc = "shift" THEN iterations ELSE Max(iterations - 1, 0)

C18_ActiveCellSchedule ==
    [][/\ num_cells = array_size - RoundsCounted
       /\ num_cells' = array_size - RoundsCounted'
       /\ (AllCells /\ Len(cells') = array_size)
          => /\ \A i \in Cells :
                   /\ (Ran("compute", i) /\ iterations >= 1)
                      => /\ i <= array_size - iterations + 1
                         /\ (i = array_size - iterations + 1
                             /\ pc' \notin {"raised", "blocked"})
                            => /\ pc' = "shift"
                               /\ cells'[i].alpha = cells'[i].alpha_top
                   /\ ~Ran("compute", i)
                      => /\ cells'[i].alpha = cells[i].alpha
                         /\ cells'[i].alpha_top = cells[i].alpha_top
             /\ (pc = "compute" /\ pc' = "shift" /\ iterations >= 1)
                => \A i \in Cells :
                      /\ last'.read[i] = iterations
                      /\ (last'.compute[i] = iterations)
                         <=> (i <= array_size - iterations + 1)
             /\ (pc = "shift" /\ pc' \in {"connect", "return"})
                => \A i \in Cells : last'.shift[i] = iterations]_vars

\* C18 witness: an array of four cells at the end of the compute stage of
\* round 2: two cells are left in the count for the next round, cells 0..2
\* were computed in round 2, cell 3 was last computed in round 1 and has
\* been read in round 2.
C18_Witness ==
    /\ AllCells /\ pc = "shift" /\ idx = 0
    /\ array_size = 4 /\ iterations = 2
    /\ num_cells = 2
    /\ \A i \in 1..3 : last.compute[i] = 2
    /\ last.compute[4] = 1
    /\ last.read[4] = 2
    /\ cells[3].alpha = cells[3].alpha_top
    /\ cells[2].alpha # cells[2].alpha_top

(***************************************************************************)
(* C19.  At the end of every round of run (after the shift stage) the      *)
(* shift register of every cell holds exactly cell_size samples, and in no *)
(* state of run does a shift register hold more than cell_size samples: it *)
(* does not accumulate samples across rounds or signal groups.             *)
(***************************************************************************)
EndOfRound ==
    /\ iterations >= 1
    /\ \/ pc = "connect" /\ idx = 0
       \/ pc = "return"

C19_ShiftRegisterBounded ==
    /\ \A i \in 1..Len(cells) : Len(cells[i].cell_shift) <= cell_size
    /\ EndOfRound
       => \A i \in Cells : Len(cells[i].cell_shift) = cell_size

\* C19 witness: the end of the first round of the second signal group; the
\* shift registers were cleared by connect and refilled by shift.
C19_Witness ==
    /\ EndOfRound /\ AllCells
    /\ iterations = array_size + 1
    /\ \A i \in Cells :
          /\ Len(cells[i].cell_shift) = cell_size
          /\ cells[i].cell_shift = GroupBlock(1, i)
    /\ \E i \in Cells : GroupBlock(1, i) # GroupBlock(0, i)

(***************************************************************************)
(* C20.  Within a signal group, in round r (0 <= r < arraySize) of the     *)
(* group the raw register of cell i holds, in the original order, the      *)
(* block that cell (i - r) mod arraySize loaded from its external queue in *)
(* round 0 of the group: every block passes through every cell exactly     *)
(* once and the order of the samples in a block is never changed.          *)
(***************************************************************************)
C20_BlockRotation ==
    (pc = "compute" /\ AllCells)
    => \A i \in Cells :
          cells[i].data_to_compute_1 =
             GroupBlock(iterations \div array_size,
                        ((i - 1 - (iterations % array_size)) % array_size) + 1)

\* C20 witness: round 2 of the second signal group of an array of three or
\* more cells: cell 0 holds the block of cell arraySize-2, whose samples
\* are not all equal and which is not the block cell 0 loaded itself.
C20_Witness ==
    /\ pc = "compute" /\ AllCells
    /\ array_size >= 3
    /\ iterations = array_size + 2
    /\ cell_size >= 2
    /\ cells[1].data_to_compute_1 = GroupBlock(1, array_size - 1)
    /\ cells[1].data_to_compute_1 # GroupBlock(1, 1)
    /\ cells[1].data_to_compute_1[1] # cells[1].data_to_compute_1[2]
=============================================================================
